---- MODULE Spec2Model ----
(***************************************************************************)
(* NetworkAgent: the per-channel protocol driver (handshake, acceptance    *)
(* gate, ping/pong liveness, getaddr/addr exchange).                       *)
(*                                                                         *)
(* One agent on one channel.  The agent's handlers run to completion one   *)
(* at a time (JavaScript event loop); the only suspension point is the     *)
(* await in _onAddr.  Channel, Timers and the address pool are             *)
(* collaborators whose code is not part of the agent.                      *)
(***************************************************************************)
EXTENDS Integers, Sequences, FiniteSets, TLC

VARIABLES
    connected,   \* this._connected
    version,     \* this._version: <<>> is null, <<msg>> is the stored message
    timers,      \* armed one-shot timeouts of this._timers, by name
    intervals,   \* armed intervals of this._timers, by name
    chan,        \* the channel: "open", "closing" (close requested), "closed"
    pool,        \* this._addresses: set of [channel, addr]
    pending,     \* suspended _onAddr calls: sequence of [addresses, done]
    isBrowser,   \* PlatformUtils.isBrowser() of this runtime
    msgs,        \* number of inbound messages delivered so far
    ev,          \* what triggered the last step
    out,         \* what the agent did in the last step, in order: channel
                 \* calls, events fired, timers armed
    prevTimers,  \* the armed timeouts before the last step
    log          \* history of handshake and address-round happenings

vars == <<connected, version, timers, intervals, chan, pool, pending,
          isBrowser, msgs, ev, out, prevTimers, log>>

\* The agent's own state and the collaborators it drives.
agentVars == <<connected, version, timers, intervals, chan, pool, pending>>

----------------------------------------------------------------------------
(* Bounds *)

MaxMsgs == 3
MaxNonce == 1
MaxPending == 1

----------------------------------------------------------------------------
(* Values *)

WEBSOCKET == 1
WEBRTC == 2
DUPLICATE == 18

ThisChannel == 1
OtherChannel == 2
LocalHeight == 100

Null == <<>>

Nonces == 0..MaxNonce

\* Peer version messages: contents may differ between two messages.
VersionMsgs ==
    { [version |-> 1, services |-> s, startHeight |-> h] :
        s \in {WEBSOCKET}, h \in {250, 300} }

AddrA == [id |-> 1, services |-> WEBSOCKET]
AddrB == [id |-> 2, services |-> WEBRTC]
Addresses == {AddrA, AddrB}
AddrLists == { <<>>, <<AddrA>>, <<AddrB, AddrA>> }
Masks == {WEBSOCKET, WEBRTC, WEBSOCKET + WEBRTC}

\* Timer names: <<name, nonce>>; the nonce is 0 for the fixed names.
VersionTimer == <<"version", 0>>
VerackTimer == <<"verack", 0>>
GetaddrTimer == <<"getaddr", 0>>
PingTimer(n) == <<"ping", n>>

\* One uniform record for triggers, sends, events and close requests.
Rec(k, t, n, a, v) == [k |-> k, t |-> t, n |-> n, a |-> a, v |-> v]

\* channel.<t>(...): an outbound message
Send(t, n, a) == Rec("send", t, n, a, Null)

\* channel.reject(type, code)
Reject(type, code) == Rec("reject", type, code, <<>>, Null)

\* this.fire(t, ...): an event to the agent's owner
Fire(t, a, v) == Rec("fire", t, 0, a, v)

\* channel.close(reason)
CloseReq(reason) == Rec("close", reason, 0, <<>>, Null)

\* this._timers.setTimeout(name, ...)
Arm(name) == Rec("arm", name[1], name[2], <<>>, Null)

\* this._timers.setInterval(name, ...)
ArmInterval(name) == Rec("armInterval", name, 0, <<>>, Null)

\* An inbound message event of the channel.
Recv(t, n, a, v) == Rec("recv", t, n, a, v)

----------------------------------------------------------------------------
(* Collaborators *)

\* Timers.setTimeout / clearTimeout / setInterval / clearInterval on the
\* set of armed names.
SetTimeout(ts, name) == ts \cup {name}
ClearTimeout(ts, name) == ts \ {name}
SetInterval(is, name) == is \cup {name}
ClearInterval(is, name) == is \ {name}

\* Mutant: every close request starts a close, also on a closed channel.
ChannelClose_Restarts(c) == "closing"

\* channel.close(reason): idempotent request; the close event comes later.
ChannelClose(c) == IF c = "open" THEN "closing" ELSE c

\* Bitwise AND on the two service bits.
BitAnd(x, y) ==
    (IF (x % 2 = 1) /\ (y % 2 = 1) THEN 1 ELSE 0)
    + (IF ((x \div 2) % 2 = 1) /\ ((y \div 2) % 2 = 1) THEN 2 ELSE 0)

\* Bitwise OR on the two service bits.
BitOr(x, y) == x + y - BitAnd(x, y)

RECURSIVE SeqOfIds(_, _)
SeqOfIds(S, ids) ==
    IF ids = {} THEN <<>>
    ELSE LET i == CHOOSE x \in ids : \A y \in ids : x <= y
             a == CHOOSE x \in S : x.id = i
         IN <<a>> \o SeqOfIds(S, ids \ {i})

\* addresses.find(serviceMask): the known addresses matching the mask.
PoolFind(p, mask) ==
    LET S == { e.addr : e \in { x \in p : BitAnd(x.addr.services, mask) # 0 } }
    IN SeqOfIds(S, { a.id : a \in S })

\* addresses.push(channel, addresses): what the pool holds once it completed.
PoolPush(p, channel, addresses) ==
    p \cup { [channel |-> channel, addr |-> addresses[i]] :
                i \in 1..Len(addresses) }

----------------------------------------------------------------------------
(* NetworkAgent *)

IsHandshakeMsg(type) == type = "version" \/ type = "verack"

\* Mutant: only handshake messages are gated.
CanAcceptMessage_HandshakeOnly(type) == IsHandshakeMsg(type) => ~connected

\* _canAcceptMessage
CanAcceptMessage(type) == IsHandshakeMsg(type) # connected

\* _requestAddresses: the mask of the getaddr request
ServiceMask == IF isBrowser THEN BitOr(WEBSOCKET, WEBRTC) ELSE WEBSOCKET

\* new Peer(channel, version, services, "TODO", startHeight)
Peer(v) == <<[version |-> v[1].version, services |-> v[1].services,
              startHeight |-> v[1].startHeight]>>

\* constructor + _handshake
Init ==
    /\ connected = FALSE
    /\ version = Null
    /\ timers = SetTimeout(SetTimeout({}, VerackTimer), VersionTimer)
    /\ intervals = {}
    /\ chan = "open"
    /\ pool = {[channel |-> OtherChannel, addr |-> AddrB]}
    /\ pending = <<>>
    /\ isBrowser \in BOOLEAN
    /\ msgs = 0
    /\ ev = Rec("init", "", 0, <<>>, Null)
    /\ prevTimers = {}
    /\ out = <<Send("version", LocalHeight, <<>>), Arm(VerackTimer),
               Arm(VersionTimer)>>
    /\ log = <<>>

Deliverable == chan # "closed" /\ msgs < MaxMsgs

\* A handler that returned without doing anything.
Dropped ==
    /\ out' = <<>>
    /\ UNCHANGED <<connected, version, timers, intervals, chan, pool,
                   pending, log>>

\* Mutant: only a version message equal to the stored one is a duplicate.
IsDuplicate_SameContents(m) == version = <<m>>

\* _onVersion: "if (this._version)", the duplicate check
IsDuplicate(m) == version # Null

\* Mutant: the version message clears the wrong handshake timer.
TimersAfterVersion_ClearsVerack == ClearTimeout(timers, VerackTimer)

\* _onVersion: this._timers.clearTimeout('version')
TimersAfterVersion == ClearTimeout(timers, VersionTimer)

\* _onVersion
OnVersion(m) ==
    /\ Deliverable
    /\ msgs' = msgs + 1
    /\ ev' = Recv("version", 0, <<>>, <<m>>)
    /\ prevTimers' = timers
    /\ UNCHANGED isBrowser
    /\ IF ~CanAcceptMessage("version") THEN Dropped
       ELSE IF IsDuplicate(m)
       THEN /\ out' = <<Reject("version", DUPLICATE)>>
            /\ log' = Append(log, "duplicate")
            /\ UNCHANGED <<connected, version, timers, intervals, chan,
                           pool, pending>>
       ELSE /\ timers' = TimersAfterVersion
            /\ out' = <<Send("verack", 0, <<>>)>>
            /\ version' = <<m>>
            /\ log' = Append(log, "version")
            /\ UNCHANGED <<connected, intervals, chan, pool, pending>>

\* Mutant: the addresses are requested before the owner hears of the peer.
VerAckCalls_RequestFirst ==
    << Send("getaddr", ServiceMask, <<>>), Arm(GetaddrTimer),
       Fire("connected", <<>>, Peer(version)), ArmInterval("connectivity") >>

\* _onVerAck, handshake completed: fire 'connected', setInterval, then
\* _requestAddresses: channel.getaddr, setTimeout
VerAckCalls ==
    << Fire("connected", <<>>, Peer(version)), ArmInterval("connectivity"),
       Send("getaddr", ServiceMask, <<>>), Arm(GetaddrTimer) >>

\* _onVerAck (with _requestAddresses)
OnVerAck ==
    /\ Deliverable
    /\ msgs' = msgs + 1
    /\ ev' = Recv("verack", 0, <<>>, Null)
    /\ prevTimers' = timers
    /\ UNCHANGED isBrowser
    /\ IF ~CanAcceptMessage("verack") THEN Dropped
       ELSE IF version = Null
       THEN /\ timers' = ClearTimeout(timers, VerackTimer)
            /\ chan' = ChannelClose(chan)
            /\ out' = <<CloseReq("verack before version")>>
            /\ log' = Append(log, "verack")
            /\ UNCHANGED <<connected, version, intervals, pool, pending>>
       ELSE /\ connected' = TRUE
            /\ intervals' = SetInterval(intervals, "connectivity")
            /\ timers' = SetTimeout(ClearTimeout(timers, VerackTimer),
                                    GetaddrTimer)
            /\ out' = VerAckCalls
            /\ log' = log \o <<"verack", "connected", "getaddr">>
            /\ UNCHANGED <<version, chan, pool, pending>>

\* _onAddr up to the await
OnAddr(addresses) ==
    /\ Deliverable
    /\ msgs' = msgs + 1
    /\ ev' = Recv("addr", 0, addresses, Null)
    /\ prevTimers' = timers
    /\ UNCHANGED isBrowser
    /\ IF ~CanAcceptMessage("addr") THEN Dropped
       ELSE /\ Len(pending) < MaxPending
            /\ timers' = ClearTimeout(timers, GetaddrTimer)
            /\ pending' = Append(pending,
                                 [addresses |-> addresses, done |-> FALSE])
            /\ out' = <<>>
            /\ log' = Append(log, "addr")
            /\ UNCHANGED <<connected, version, intervals, chan, pool>>

RemoveAt(s, i) == SubSeq(s, 1, i - 1) \o SubSeq(s, i + 1, Len(s))

\* addresses.push completes
PushDone(i) ==
    /\ i \in 1..Len(pending)
    /\ ~pending[i].done
    /\ pool' = PoolPush(pool, ThisChannel, pending[i].addresses)
    /\ pending' = [pending EXCEPT ![i].done = TRUE]
    /\ ev' = Rec("pushed", "", 0, pending[i].addresses, Null)
    /\ prevTimers' = timers
    /\ out' = <<>>
    /\ UNCHANGED <<connected, version, timers, intervals, chan, isBrowser,
                   msgs, log>>

\* Mutant: the call goes on without awaiting the insertion.
Resumable_NoAwait(i) == TRUE

\* _onAddr: "await this._addresses.push(...)" lets the call go on
Resumable(i) == pending[i].done

\* _onAddr after the await
OnAddrResume(i) ==
    /\ i \in 1..Len(pending)
    /\ Resumable(i)
    /\ pending' = RemoveAt(pending, i)
    /\ ev' = Rec("resume", "", 0, pending[i].addresses, Null)
    /\ prevTimers' = timers
    /\ out' = <<Fire("addresses", pending[i].addresses, Null)>>
    /\ log' = Append(log, "addresses")
    /\ UNCHANGED <<connected, version, timers, intervals, chan, pool,
                   isBrowser, msgs>>

\* Mutant: the reply is filtered by the agent's own request mask.
GetAddrReply_OwnMask(mask) ==
    <<Send("addr", 0, PoolFind(pool, ServiceMask))>>

\* _onGetAddr: find(msg.serviceMask), channel.addr(addresses)
GetAddrReply(mask) == <<Send("addr", 0, PoolFind(pool, mask))>>

\* _onGetAddr
OnGetAddr(mask) ==
    /\ Deliverable
    /\ msgs' = msgs + 1
    /\ ev' = Recv("getaddr", mask, <<>>, Null)
    /\ prevTimers' = timers
    /\ UNCHANGED isBrowser
    /\ IF ~CanAcceptMessage("getaddr") THEN Dropped
       ELSE /\ out' = GetAddrReply(mask)
            /\ UNCHANGED <<connected, version, timers, intervals, chan,
                           pool, pending, log>>

\* Mutant: the timer name leaves the nonce out.
TimersAfterPing_FixedName(nonce) == SetTimeout(timers, PingTimer(0))

\* _checkConnectivity: this._timers.setTimeout('ping_' + nonce, ...)
TimersAfterPing(nonce) == SetTimeout(timers, PingTimer(nonce))

\* _checkConnectivity, run by the 'connectivity' interval
CheckConnectivity(nonce) ==
    /\ "connectivity" \in intervals
    /\ ev' = Rec("interval", "connectivity", nonce, <<>>, Null)
    /\ prevTimers' = timers
    /\ out' = <<Send("ping", nonce, <<>>), Arm(PingTimer(nonce))>>
    /\ timers' = TimersAfterPing(nonce)
    /\ UNCHANGED <<connected, version, intervals, chan, pool, pending,
                   isBrowser, msgs, log>>

\* Mutant: the pong carries a nonce of its own.
PingReply_OwnNonce(nonce) == <<Send("pong", 0, <<>>)>>

\* _onPing: channel.pong(msg.nonce)
PingReply(nonce) == <<Send("pong", nonce, <<>>)>>

\* _onPing
OnPing(nonce) ==
    /\ Deliverable
    /\ msgs' = msgs + 1
    /\ ev' = Recv("ping", nonce, <<>>, Null)
    /\ prevTimers' = timers
    /\ UNCHANGED isBrowser
    /\ IF ~CanAcceptMessage("ping") THEN Dropped
       ELSE /\ out' = PingReply(nonce)
            /\ UNCHANGED <<connected, version, timers, intervals, chan,
                           pool, pending, log>>

\* Mutant: any pong clears every outstanding ping timer.
TimersAfterPong_ClearsAll(nonce) == { t \in timers : t[1] # "ping" }

\* _onPong: this._timers.clearTimeout('ping_' + msg.nonce)
TimersAfterPong(nonce) == ClearTimeout(timers, PingTimer(nonce))

\* _onPong
OnPong(nonce) ==
    /\ Deliverable
    /\ msgs' = msgs + 1
    /\ ev' = Recv("pong", nonce, <<>>, Null)
    /\ prevTimers' = timers
    /\ timers' = TimersAfterPong(nonce)
    /\ out' = <<>>
    /\ UNCHANGED <<connected, version, intervals, chan, pool, pending,
                   isBrowser, log>>

\* Mutant: every close on a timeout reports a handshake phase.
TimeoutReason_HandshakeOnly(name) ==
    IF name = VerackTimer THEN "verack timeout" ELSE "version timeout"

\* The reason a handshake or ping timer closes the channel with.
TimeoutReason(name) ==
    CASE name = VersionTimer -> "version timeout"
      [] name = VerackTimer -> "verack timeout"
      [] OTHER -> "ping timeout"

\* Mutant: the 'getaddr' timeout closes the channel like the others.
TimeoutCloses_Always(name) == TRUE

\* Whether the callback of the timer is a channel.close(...): all but the
\* 'getaddr' callback, which fires 'addresses' with an empty list.
TimeoutCloses(name) == name # GetaddrTimer

\* A one-shot timer expires and runs its callback.
Timeout(name) ==
    /\ name \in timers
    /\ timers' = timers \ {name}
    /\ ev' = Rec("timer", name[1], name[2], <<>>, Null)
    /\ prevTimers' = timers
    /\ IF TimeoutCloses(name)
       THEN /\ out' = <<CloseReq(TimeoutReason(name))>>
            /\ chan' = ChannelClose(chan)
            /\ UNCHANGED log
       ELSE /\ out' = <<Fire("addresses", <<>>, Null)>>
            /\ log' = Append(log, "timeout")
            /\ UNCHANGED chan
    /\ UNCHANGED <<connected, version, intervals, pool, pending, isBrowser,
                   msgs>>

\* Mutant: the close handler clears a timeout of that name, not the interval.
IntervalsAfterClose_ClearsTimeout == intervals

\* _onClose: this._timers.clearInterval('connectivity')
IntervalsAfterClose == ClearInterval(intervals, "connectivity")

\* The channel's close event (the peer left, or a requested close took
\* effect), handled by _onClose.
OnClose ==
    /\ chan # "closed"
    /\ chan' = "closed"
    /\ intervals' = IntervalsAfterClose
    /\ ev' = Rec("closed", "", 0, <<>>, Null)
    /\ prevTimers' = timers
    /\ out' = <<>>
    /\ UNCHANGED <<connected, version, timers, pool, pending, isBrowser,
                   msgs, log>>

Next ==
    \/ \E m \in VersionMsgs : OnVersion(m)
    \/ OnVerAck
    \/ \E a \in AddrLists : OnAddr(a)
    \/ \E i \in 1..MaxPending : PushDone(i)
    \/ \E i \in 1..MaxPending : OnAddrResume(i)
    \/ \E mask \in Masks : OnGetAddr(mask)
    \/ \E n \in Nonces : CheckConnectivity(n)
    \/ \E n \in Nonces : OnPing(n)
    \/ \E n \in Nonces : OnPong(n)
    \/ \E name \in timers : Timeout(name)
    \/ OnClose

Spec == Init /\ [][Next]_vars

\* Every armed timeout expires unless it is cleared first, and a pending
\* pool insertion completes and its caller goes on.
FairSpec ==
    /\ Spec
    /\ \A name \in {VersionTimer, VerackTimer, GetaddrTimer}
                   \cup { PingTimer(n) : n \in Nonces } :
          WF_vars(Timeout(name))
    /\ \A i \in 1..MaxPending :
          WF_vars(PushDone(i)) /\ WF_vars(OnAddrResume(i))

----------------------------------------------------------------------------
(* Reading the history *)

Count(tag) == Cardinality({ i \in 1..Len(log) : log[i] = tag })

\* The handshake messages accepted before the first 'connected' event.
HandshakeBeforeConnected ==
    LET c == CHOOSE i \in 1..Len(log) : log[i] = "connected"
    IN SelectSeq(SubSeq(log, 1, c - 1),
                 LAMBDA x : x = "version" \/ x = "verack")

IsRecv(e, type) == e.k = "recv" /\ e.t = type

\* What a message can change: agent state, timers, channel, pool, or
\* something sent, fired or requested.
Effect == agentVars' # agentVars \/ out' # <<>>

----------------------------------------------------------------------------
(* Handshake *)

\* C1: 'connected' is emitted at most once, and only after exactly one
\* accepted version message followed by exactly one accepted verack.
\* (The log holds a "version" for each version message stored and a
\* "verack" for each verack that passed _canAcceptMessage.)
C1_ConnectedOnceAfterVersionThenVerack ==
    /\ Count("connected") <= 1
    /\ Count("connected") = 1 =>
           HandshakeBeforeConnected = <<"version", "verack">>

\* C2: a verack received while no version is stored cancels the 'verack'
\* timer, requests close with "verack before version", leaves connected
\* unset, and the agent never emits 'connected' afterwards.
C2_VerackFirstNeverConnects ==
    /\ (IsRecv(ev, "verack") /\ version = Null /\ ~connected) =>
           /\ VerackTimer \notin timers
           /\ out = <<CloseReq("verack before version")>>
           /\ chan # "open"
    /\ (Len(log) > 0 /\ log[1] = "verack") => Count("connected") = 0

\* The timer that triggered a step, as an event.
Expired(name) == Rec("timer", name[1], name[2], <<>>, Null)

\* C3: a stored version never changes, and a further version message
\* before the handshake completes is answered with exactly one DUPLICATE
\* reject for 'version', whatever its contents, with no timer change and no
\* close.
C3_DuplicateVersionRejected ==
    [][ /\ version # Null => version' = version
        /\ (IsRecv(ev', "version") /\ version # Null /\ ~connected) =>
               /\ out' = <<Reject("version", DUPLICATE)>>
               /\ UNCHANGED <<timers, intervals, chan, connected>> ]_vars

C3_Witness ==
    /\ IsRecv(ev, "version")
    /\ version # Null
    /\ ev.v # version
    /\ out = <<Reject("version", DUPLICATE)>>

----------------------------------------------------------------------------
(* Acceptance gate *)

\* C4 as stated: a message has an effect if and only if
\* isHandshakeKind(msg) != connected.
C4_ProcessedIffAcceptable ==
    [][ ev'.k = "recv" =>
            (Effect <=> (IsHandshakeMsg(ev'.t) # connected)) ]_vars

\* C4 amended: a message failing the check has no effect at all; a message
\* passing it has an effect, except a pong whose nonce names no armed timer.
C4_GateDropsAndAccepts ==
    [][ ev'.k = "recv" =>
            /\ (IsHandshakeMsg(ev'.t) = connected) => ~Effect
            /\ ( /\ IsHandshakeMsg(ev'.t) # connected
                 /\ ~(ev'.t = "pong" /\ PingTimer(ev'.n) \notin timers) )
               => Effect ]_vars

C4_Witness ==
    /\ IsRecv(ev, "version")
    /\ connected
    /\ out = <<>>
    /\ timers = prevTimers

----------------------------------------------------------------------------
(* Timeouts *)

\* C5: both handshake timers are armed at construction; 'version' leaves
\* the armed set only by the first accepted version message or by expiring
\* with close("version timeout"), 'verack' only by an accepted verack or by
\* expiring with close("verack timeout"); each of them does leave it, and a
\* peer that sends no handshake message sees a close request.
C5_HandshakeTimeouts ==
    /\ VersionTimer \in timers /\ VerackTimer \in timers
    /\ [][ /\ (VersionTimer \in timers /\ VersionTimer \notin timers') =>
                  \/ /\ IsRecv(ev', "version")
                     /\ ~connected /\ version = Null /\ version' = ev'.v
                  \/ /\ ev' = Expired(VersionTimer)
                     /\ out' = <<CloseReq("version timeout")>>
                     /\ chan' # "open"
           /\ (VerackTimer \in timers /\ VerackTimer \notin timers') =>
                  \/ IsRecv(ev', "verack") /\ ~connected
                  \/ /\ ev' = Expired(VerackTimer)
                     /\ out' = <<CloseReq("verack timeout")>>
                     /\ chan' # "open" ]_vars
    /\ (VersionTimer \in timers) ~> (VersionTimer \notin timers)
    /\ (VerackTimer \in timers) ~> (VerackTimer \notin timers)
    /\ <>(log # <<>> \/ (ev.k = "timer" /\ out # <<>> /\ out[1].k = "close"))

C5_Witness ==
    /\ ev = Expired(VersionTimer)
    /\ out = <<CloseReq("version timeout")>>
    /\ version = Null
    /\ VerackTimer \in timers

\* C6: every ping sent with nonce n arms 'ping_n'; that timer leaves the
\* armed set only by a pong with nonce n or by expiring with
\* close("ping timeout"), and it does leave it.
C6_PingTimeoutCloses ==
    /\ [][ /\ ev'.k = "interval" =>
                  /\ out' = <<Send("ping", ev'.n, <<>>),
                              Arm(PingTimer(ev'.n))>>
                  /\ PingTimer(ev'.n) \in timers'
           /\ \A n \in Nonces :
                  (PingTimer(n) \in timers /\ PingTimer(n) \notin timers') =>
                      \/ IsRecv(ev', "pong") /\ ev'.n = n
                      \/ /\ ev' = Expired(PingTimer(n))
                         /\ out' = <<CloseReq("ping timeout")>>
                         /\ chan' # "open" ]_vars
    /\ \A n \in Nonces :
           (PingTimer(n) \in timers) ~> (PingTimer(n) \notin timers)

C6_Witness ==
    /\ ev.k = "timer" /\ ev.t = "ping"
    /\ out = <<CloseReq("ping timeout")>>
    /\ connected

\* C7: a pong with nonce n clears 'ping_n' and nothing else: every other
\* timer, the interval, the channel and the agent's state stay as they are
\* and nothing is sent or closed.
C7_PongClearsOnlyItsTimer ==
    [][ IsRecv(ev', "pong") =>
            /\ timers' = timers \ {PingTimer(ev'.n)}
            /\ out' = <<>>
            /\ UNCHANGED <<connected, version, intervals, chan, pool,
                           pending>> ]_vars

C7_Witness ==
    /\ IsRecv(ev, "pong")
    /\ PingTimer(ev.n) \in prevTimers
    /\ PingTimer(ev.n) \notin timers
    /\ \E n \in Nonces : n # ev.n /\ PingTimer(n) \in timers
    /\ GetaddrTimer \in timers
    /\ chan = "open"

----------------------------------------------------------------------------
(* Address exchange *)

Tagged(addresses) ==
    { [channel |-> ThisChannel, addr |-> addresses[i]] :
        i \in 1..Len(addresses) }

\* C8: an accepted addr message clears 'getaddr' and emits nothing yet;
\* the pool then receives exactly its addresses tagged with this channel;
\* the 'addresses' event carries exactly the received list and comes only
\* once they are in the pool, which does happen; no timeout event follows
\* an accepted addr.
C8_AddrInsertedThenAnnounced ==
    /\ [][ /\ (IsRecv(ev', "addr") /\ connected) =>
                  /\ timers' = timers \ {GetaddrTimer}
                  /\ out' = <<>>
                  /\ pool' = pool
                  /\ pending' = Append(pending, [addresses |-> ev'.a,
                                                 done |-> FALSE])
           /\ ev'.k = "pushed" => pool' = pool \cup Tagged(ev'.a)
           /\ ev'.k = "resume" =>
                  /\ out' = <<Fire("addresses", ev'.a, Null)>>
                  /\ Tagged(ev'.a) \subseteq pool
                  /\ pool' = pool
                  /\ \E i \in 1..Len(pending) :
                         /\ pending[i].addresses = ev'.a
                         /\ pending' = RemoveAt(pending, i) ]_vars
    /\ [](\A i, j \in 1..Len(log) :
              (i < j /\ log[i] = "addr") => log[j] # "timeout")
    /\ (pending # <<>>) ~> (ev.k = "resume")

C8_Witness ==
    /\ ev.k = "resume"
    /\ ev.a = <<AddrB, AddrA>>
    /\ out = <<Fire("addresses", <<AddrB, AddrA>>, Null)>>
    /\ Tagged(ev.a) \subseteq pool
    /\ Count("timeout") = 0
    /\ Count("addresses") = 1

\* C9: the 'getaddr' timer is armed only while no addr message has been
\* accepted, and when it expires the agent emits 'addresses' with an empty
\* list, inserts nothing into the pool and requests no close.
C9_GetaddrTimeoutEmitsEmpty ==
    /\ [][ ev' = Expired(GetaddrTimer) =>
               /\ out' = <<Fire("addresses", <<>>, Null)>>
               /\ UNCHANGED <<pool, pending, chan, connected, version,
                              intervals>> ]_vars
    /\ [](GetaddrTimer \in timers =>
              Count("getaddr") = 1 /\ Count("addr") = 0)
    /\ (GetaddrTimer \in timers) ~> (GetaddrTimer \notin timers)

C9_Witness ==
    /\ ev = Expired(GetaddrTimer)
    /\ out = <<Fire("addresses", <<>>, Null)>>
    /\ chan = "open"
    /\ Count("addr") = 0

\* C10: at most one 'addresses' event, from an addr message or from the
\* timeout, per getaddr request sent.
C10_AddressesOncePerRound ==
    Count("addresses") + Count("timeout") <= Count("getaddr")

----------------------------------------------------------------------------
(* Fatal and non-fatal conditions *)

\* The reason string that names the phase of a timer.
PhaseReason(t) ==
    CASE t = "version" -> "version timeout"
      [] t = "verack" -> "verack timeout"
      [] t = "getaddr" -> "getaddr timeout"
      [] t = "ping" -> "ping timeout"

\* C11 as stated: the expiry of a version, verack, getaddr or ping timer
\* closes the channel with a reason naming the phase that timed out.
C11_EveryTimeoutCloses ==
    [][ ev'.k = "timer" =>
            /\ out' = <<CloseReq(PhaseReason(ev'.t))>>
            /\ chan' # "open" ]_vars

\* C11 amended: the expiry of a version, verack or ping timer closes the
\* channel with a reason naming the phase; the expiry of the getaddr timer
\* requests no close and leaves the channel as it is.
C11_HandshakeAndPingTimeoutsClose ==
    [][ ev'.k = "timer" =>
            IF ev'.t \in {"version", "verack", "ping"}
            THEN /\ out' = <<CloseReq(PhaseReason(ev'.t))>>
                 /\ chan' # "open"
            ELSE /\ ev'.t = "getaddr"
                 /\ \A i \in 1..Len(out') : out'[i].k # "close"
                 /\ chan' = chan ]_vars

C11_Witness ==
    /\ ev = Rec("timer", "verack", 0, <<>>, Null)
    /\ out = <<CloseReq("verack timeout")>>
    /\ version # Null
    /\ ~connected
    /\ chan = "closing"

\* The conditions under which the agent calls channel.close.
Fatal ==
    \/ ev'.k = "timer" /\ ev'.t \in {"version", "verack", "ping"}
    \/ IsRecv(ev', "verack") /\ ~connected /\ version = Null

\* C12: close is requested, and the channel starts closing on the agent's
\* behalf, only when a version, verack or ping timer expires or a verack
\* comes before the version; nothing else (dropped message, duplicate
\* version, unknown pong, addr, getaddr, getaddr timeout) requests a close,
\* and the only events fired are 'connected' and 'addresses'.
C12_OnlyFatalConditionsClose ==
    [][ /\ (\E i \in 1..Len(out') : out'[i].k = "close") => Fatal
        /\ (chan = "open" /\ chan' = "closing") => Fatal
        /\ \A i \in 1..Len(out') :
               out'[i].k = "fire" => out'[i].t \in {"connected", "addresses"}
      ]_vars

C12_Witness ==
    /\ Count("duplicate") = 1
    /\ Count("timeout") = 1
    /\ connected
    /\ chan = "open"

----------------------------------------------------------------------------
(* Handshake completion *)

\* C14: the version is stored from the first version message accepted and
\* stays; the verack that completes the handshake sets connected and then,
\* in this order, fires 'connected' with a Peer carrying the stored
\* version, services and startHeight, arms the 'connectivity' interval,
\* sends getaddr and arms the 'getaddr' timer.
C14_PeerFromStoredVersionInOrder ==
    [][ /\ (version = Null /\ version' # Null) =>
               (IsRecv(ev', "version") /\ version' = ev'.v)
        /\ version # Null => version' = version
        /\ (IsRecv(ev', "verack") /\ ~connected /\ version # Null) =>
               /\ connected'
               /\ Len(out') = 4
               /\ out'[1].k = "fire" /\ out'[1].t = "connected"
               /\ out'[1].v[1].version = version[1].version
               /\ out'[1].v[1].services = version[1].services
               /\ out'[1].v[1].startHeight = version[1].startHeight
               /\ out'[2] = ArmInterval("connectivity")
               /\ out'[3].k = "send" /\ out'[3].t = "getaddr"
               /\ out'[4] = Arm(GetaddrTimer)
               /\ "connectivity" \in intervals'
               /\ GetaddrTimer \in timers' ]_vars

C14_Witness ==
    /\ IsRecv(ev, "verack")
    /\ connected
    /\ Count("duplicate") = 1
    /\ Len(out) = 4
    /\ out[1] = Fire("connected", <<>>,
                     <<[version |-> 1, services |-> WEBSOCKET,
                        startHeight |-> 250]>>)
    /\ version[1].startHeight = 250

----------------------------------------------------------------------------
(* Connectivity check, ping and getaddr replies *)

IsPingCall(r) ==
    \/ r.k = "send" /\ r.t = "ping"
    \/ r.k = "arm" /\ r.t = "ping"

\* C15: the 'connectivity' interval is armed only while the agent is
\* connected and the close event has not been handled; handling the close
\* event clears it; a ping is sent and a 'ping_<nonce>' timer armed only by
\* a tick of the interval, so never before the handshake completes and
\* never after the close event.
C15_ConnectivityOnlyWhileConnectedAndOpen ==
    /\ []("connectivity" \in intervals => (connected /\ chan # "closed"))
    /\ [][ /\ ev'.k = "closed" => "connectivity" \notin intervals'
           /\ (\E i \in 1..Len(out') : IsPingCall(out'[i])) =>
                  /\ ev'.k = "interval"
                  /\ connected
                  /\ chan # "closed" ]_vars

C15_Witness ==
    /\ ev.k = "closed"
    /\ chan = "closed"
    /\ connected
    /\ intervals = {}
    /\ \E n \in Nonces : PingTimer(n) \in timers

\* C16: a ping with nonce n received while connected is answered with
\* exactly one pong carrying n; connected, the stored version, the timers,
\* the interval, the channel and the pool stay as they are.
C16_PingAnsweredWithSameNonce ==
    [][ (IsRecv(ev', "ping") /\ connected) =>
            /\ out' = <<Send("pong", ev'.n, <<>>)>>
            /\ UNCHANGED <<connected, version, timers, intervals, chan,
                           pool, pending>> ]_vars

C16_Witness ==
    /\ IsRecv(ev, "ping")
    /\ ev.n = 1
    /\ connected
    /\ out = <<Send("pong", 1, <<>>)>>
    /\ timers = prevTimers

\* The addresses of the pool whose services meet the mask.
Matching(mask) ==
    { e.addr : e \in { x \in pool : BitAnd(x.addr.services, mask) # 0 } }

\* C17: a getaddr with mask m received while connected is answered with
\* exactly one addr message listing, once each, the addresses of the pool
\* that match m; no timer, no agent state and no pool entry changes and no
\* event is fired.
C17_GetAddrAnsweredFromPool ==
    [][ (IsRecv(ev', "getaddr") /\ connected) =>
            /\ Len(out') = 1
            /\ out'[1].k = "send" /\ out'[1].t = "addr"
            /\ { out'[1].a[i] : i \in 1..Len(out'[1].a) } = Matching(ev'.n)
            /\ Len(out'[1].a) = Cardinality(Matching(ev'.n))
            /\ UNCHANGED <<connected, version, timers, intervals, chan,
                           pool, pending>> ]_vars

C17_Witness ==
    /\ IsRecv(ev, "getaddr")
    /\ ev.n = WEBRTC
    /\ connected
    /\ ~isBrowser
    /\ out = <<Send("addr", 0, <<AddrB>>)>>

----------------------------------------------------------------------------
(* Lifetime invariants *)

\* C18: while connected, a version is stored and neither handshake timer is
\* armed, so neither can expire; connected never goes back to false.
C18_ConnectedImpliesHandshakeDone ==
    /\ [](connected =>
              /\ version # Null
              /\ VersionTimer \notin timers
              /\ VerackTimer \notin timers)
    /\ [][ connected =>
               /\ connected'
               /\ ~(ev'.k = "timer" /\ ev'.t \in {"version", "verack"})
         ]_vars

C18_Witness ==
    /\ connected
    /\ IsRecv(ev, "verack")
    /\ prevTimers = {VerackTimer}
    /\ timers = {GetaddrTimer}
    /\ version # Null
    /\ chan = "open"

\* C19: once the channel's close event has been handled, no step of the
\* agent fires 'connected' or 'addresses'.
C19_NoEventAfterClose ==
    (chan = "closed" /\ ev.k # "closed") =>
        \A i \in 1..Len(out) : out[i].k # "fire"

IsMessage(r) == r.k = "send" \/ r.k = "reject"

\* Whether out'[i] comes right after the 'connected' event: the event is
\* fired earlier in the same step and only timers are armed in between.
RightAfterConnected(o, i) ==
    \E j \in 1..(i - 1) :
        /\ o[j].k = "fire" /\ o[j].t = "connected"
        /\ \A h \in (j + 1)..(i - 1) : o[h].k \in {"arm", "armInterval"}

\* C20: the version announcement, with the local height, is the first thing
\* sent and is never sent again; a verack is sent only by the step that
\* stores the version, hence at most once; a step that leaves the agent
\* not connected sends nothing but verack and reject; getaddr is sent only
\* by the step that completes the handshake, right after the 'connected'
\* event, and every 'connected' event is followed by it, hence once.
C20_SendsBeforeAndAtConnection ==
    /\ out[1] = Send("version", LocalHeight, <<>>)
    /\ [][ /\ \A i \in 1..Len(out') :
                  /\ ~(out'[i].k = "send" /\ out'[i].t = "version")
                  /\ (IsMessage(out'[i]) /\ ~connected') =>
                         \/ out'[i] = Send("verack", 0, <<>>)
                         \/ out'[i].k = "reject"
                  /\ (out'[i].k = "send" /\ out'[i].t = "verack") =>
                         (version = Null /\ version' # Null)
                  /\ (out'[i].k = "send" /\ out'[i].t = "getaddr") =>
                         /\ ~connected /\ connected'
                         /\ RightAfterConnected(out', i)
                  /\ (out'[i].k = "fire" /\ out'[i].t = "connected") =>
                         /\ ~connected /\ connected'
                         /\ Cardinality({ h \in 1..Len(out') :
                                out'[h].k = "send" /\ out'[h].t = "getaddr" })
                              = 1
           /\ version # Null => version' # Null
           /\ connected => connected' ]_vars

C20_Witness ==
    /\ ~connected
    /\ IsRecv(ev, "version")
    /\ out = <<Send("verack", 0, <<>>)>>
    /\ msgs = 3
    /\ chan = "open"

====
